---------------------------- MODULE Spec2Model ----------------------------
(***************************************************************************)
(* A model of rubrik_cdm/rubrik_cdm.py: the Bootstrap.setup_cluster        *)
(* workflow (validation, payload construction, the submission retry loop   *)
(* and the status polling loop), the endpoint validator _api_validation of *)
(* both classes, and the Connect constructor with _authorization_header.   *)
(*                                                                         *)
(* Three specifications share the variables: Spec (the bootstrap           *)
(* workflow), SpecApiValidation (the endpoint validator) and SpecConnect   *)
(* (the Connection Context and its authorization header).  Each keeps the  *)
(* variables of the other two at their idle values.                        *)
(***************************************************************************)
EXTENDS Integers, Sequences, FiniteSets, TLC

VARIABLES
    \* ---- Bootstrap.setup_cluster ----
    pc,                 \* position in setup_cluster: idle / called / submitting / polling / done
    call,               \* the arguments of the call
    bootstrap_config,   \* the payload built at lines 267-285
    number_of_attempts, \* the local of the same name (lines 291, 304, 312)
    api_request,        \* the response of the successful POST (line 292)
    request_id,         \* line 316
    status,             \* the last status payload (line 321)
    trace,              \* the HTTP requests and sleeps performed, in order
    posted,             \* the set of distinct payloads handed to self.post
    result,             \* how the call ended: returned value or raised exception
    \* ---- _api_validation ----
    vcall,              \* class, api_version, api_endpoint
    vresult,            \* pending / ok / InvalidParameterException / IndexError
    \* ---- Connect ----
    cargs,              \* constructor arguments
    cenv,               \* the four environment variables
    cstate,             \* pending / constructed / raised
    self,               \* the attributes set on the Connect object
    cexc,               \* the message of the exception __init__ raised
    header              \* the last value _authorization_header returned

bvars == <<pc, call, bootstrap_config, number_of_attempts, api_request,
           request_id, status, trace, posted, result>>
vvars == <<vcall, vresult>>
cvars == <<cargs, cenv, cstate, self, cexc, header>>
vars == <<bvars, vvars, cvars>>

\* ------------------------------------------------------------------------
\* Bounds of the model (not program constants)
\* ------------------------------------------------------------------------

\* The POSTs one run of the model may issue (the code's loop has no bound of
\* its own beyond number_of_attempts; see PostConnectionRefused).
MaxPosts == 14

\* The status GETs one run of the model may issue (the polling loop is unbounded).
MaxPolls == 3

\* The longest endpoint string handed to _api_validation.
MaxEndpointLen == 3

\* ------------------------------------------------------------------------
\* Program constants
\* ------------------------------------------------------------------------

\* `if number_of_attempts == 12`
MaxAttempts == 12

\* time.sleep(30) in the submission loop
RetrySleepSeconds == 30

\* time.sleep(30) in the polling loop
PollSleepSeconds == 30

\* ------------------------------------------------------------------------
\* Python values
\* ------------------------------------------------------------------------

PyNone == [type |-> "NoneType", val |-> <<>>]
\* A str, as the sequence of its code points.
PyStr(s) == [type |-> "str", val |-> s]
PyList(l) == [type |-> "list", val |-> l]
PyDict(d) == [type |-> "dict", val |-> d]

\* isinstance(v, t)
IsInstance(v, t) == v.type = t

NoValue == <<>>
NoException == [type |-> "", msg |-> ""]

Returned(kind, v) == [how |-> "return", kind |-> kind, val |-> v]
Raised(exc, msg) == [how |-> "raise", kind |-> exc, val |-> msg]
Running == [how |-> "running", kind |-> "", val |-> NoValue]

NoError == [refused |-> FALSE, already |-> FALSE, text |-> ""]
NoResponse == [status |-> "", message |-> ""]

\* What the workflow did, in order: a POST of the payload (with the response or
\* the error it met), a status GET for a request id, a sleep.
PostOk(resp) == [op |-> "POST", ok |-> TRUE, id |-> "", secs |-> 0,
                 err |-> NoError, resp |-> resp]
PostFailed(err) == [op |-> "POST", ok |-> FALSE, id |-> "", secs |-> 0,
                    err |-> err, resp |-> NoResponse]
GetOk(id, st) == [op |-> "GET", ok |-> TRUE, id |-> id, secs |-> 0,
                  err |-> NoError, resp |-> st]
GetFailed(id, err) == [op |-> "GET", ok |-> FALSE, id |-> id, secs |-> 0,
                       err |-> err, resp |-> NoResponse]
SleepEvent(s) == [op |-> "SLEEP", ok |-> TRUE, id |-> "", secs |-> s,
                  err |-> NoError, resp |-> NoResponse]

Count(t, op) == Cardinality({i \in DOMAIN t : t[i].op = op})

\* ------------------------------------------------------------------------
\* Bootstrap.setup_cluster: the inputs
\* ------------------------------------------------------------------------

NodeDicts ==
    { [n \in {} |-> "1.2.3.4"],
      [n \in {"node1"} |-> "1.2.3.4"],
      [n \in {"node1", "node2"} |-> IF n = "node1" THEN "1.2.3.4" ELSE "1.2.3.5"] }

\* A value that is neither None, a dict nor a list.
AString == PyStr(<<110, 49>>)

NodeConfigArgs == {PyNone, AString} \cup {PyDict(d) : d \in NodeDicts}
DnsSearchArgs == {PyNone, AString, PyList(<<>>), PyList(<<"lab.local">>)}
DnsNameserverArgs == {PyNone, AString, PyList(<<"10.0.0.53", "10.0.0.54">>)}
NtpServerArgs == {PyNone, AString, PyList(<<"time.lab.local">>)}
Gateways == {"10.0.0.1", "10.0.1.1"}

Calls ==
    [ cluster_name : {"c1"},
      admin_email : {"admin@lab.local"},
      admin_password : {"secret"},
      management_gateway : Gateways,
      management_subnet_mask : {"255.255.255.0"},
      node_config : NodeConfigArgs,
      enable_encryption : {TRUE},
      dns_search_domains : DnsSearchArgs,
      dns_nameservers : DnsNameserverArgs,
      ntp_servers : NtpServerArgs,
      wait_for_completion : BOOLEAN ]

NoCall == <<>>

\* What str(bootstrap_error) is tested for, and the text that identifies the
\* failure.  A single APICallException message is either the transport's
\* connection error or the server's message, so no message holds both markers.
ErrorMessages ==
    { [refused |-> TRUE,  already |-> FALSE, text |-> "Connection refused"],
      [refused |-> FALSE, already |-> TRUE,  text |-> "already bootstrapped"],
      [refused |-> FALSE, already |-> FALSE, text |-> "Read timed out"],
      [refused |-> FALSE, already |-> FALSE, text |-> "Internal Server Error"] }

RequestIds == {"1", "7"}
PostResponses == [id : RequestIds]

StatusResponses ==
    [ status : {"IN_PROGRESS", "FAILURE", "FAILED", "SUCCESS"},
      message : {"", "node unreachable"} ]

\* ------------------------------------------------------------------------
\* Bootstrap.setup_cluster: the code
\* ------------------------------------------------------------------------

\* Lines 247-265: the exception message the argument checks raise, or "" when
\* they all pass.
ValidateArguments(c) ==
    IF c.node_config = PyNone \/ ~IsInstance(c.node_config, "dict")
    THEN "You must provide a valid dictionary for \"node_config\"."
    ELSE IF c.dns_search_domains /= PyNone /\ ~IsInstance(c.dns_search_domains, "list")
    THEN "You must provide a valid list for \"dns_search_domains\"."
    ELSE IF c.dns_nameservers /= PyNone /\ ~IsInstance(c.dns_nameservers, "list")
    THEN "You must provide a valid list for \"dns_nameservers\"."
    ELSE IF c.ntp_servers /= PyNone /\ ~IsInstance(c.ntp_servers, "list")
    THEN "You must provide a valid list for \"ntp_servers\"."
    ELSE ""

\* Lines 251-252, 257-258, 262-263: the defaults of the three list arguments.
Defaulted(arg, default) == IF arg = PyNone THEN default ELSE arg.val

\* NodeEntry with the netmask and the gateway exchanged.
NodeEntry_Swapped(c, node_ip) ==
    [ managementIpConfig |->
        [ netmask |-> c.management_gateway,
          gateway |-> c.management_subnet_mask,
          address |-> node_ip ] ]

\* Lines 279-285: one nodeConfigs entry.
NodeEntry(c, node_ip) ==
    [ managementIpConfig |->
        [ netmask |-> c.management_subnet_mask,
          gateway |-> c.management_gateway,
          address |-> node_ip ] ]

\* Lines 267-285: the payload.
BuildBootstrapConfig(c) ==
    [ enableSoftwareEncryptionAtRest |-> c.enable_encryption,
      name |-> c.cluster_name,
      dnsNameservers |-> Defaulted(c.dns_nameservers, <<"8.8.8.8">>),
      dnsSearchDomains |-> Defaulted(c.dns_search_domains, <<>>),
      ntpServers |-> Defaulted(c.ntp_servers, <<"pool.ntp.org">>),
      adminUserInfo |->
        [ password |-> c.admin_password,
          emailAddress |-> c.admin_email,
          id |-> "admin" ],
      nodeConfigs |->
        [ node_name \in DOMAIN c.node_config.val |->
            NodeEntry(c, c.node_config.val[node_name]) ] ]

\* ErrorBranch without the already-bootstrapped test.
ErrorBranch_NoAlready(err) ==
    IF err.refused THEN "retry" ELSE "raise"

\* ErrorBranch retrying every failure that is not already-bootstrapped.
ErrorBranch_RetryAll(err) ==
    IF err.already THEN "already" ELSE "retry"

\* Lines 299-310: the branch the except clause takes for an error message.
ErrorBranch(err) ==
    IF err.refused THEN "retry"
    ELSE IF err.already THEN "already"
    ELSE "raise"

\* StatusBranch that knows FAILURE but not FAILED.
StatusBranch_OnlyFailure(st) ==
    IF st.status = "IN_PROGRESS" THEN "sleep"
    ELSE IF st.status = "FAILURE" THEN "raise"
    ELSE "return"

\* Lines 323-331: the branch the polling loop takes for a status payload.
StatusBranch(st) ==
    IF st.status = "IN_PROGRESS" THEN "sleep"
    ELSE IF st.status = "FAILURE" \/ st.status = "FAILED" THEN "raise"
    ELSE "return"

\* RequestIdOf that leaves Bootstrap.status its default request_id="1".
RequestIdOf_Default(resp) == "1"

\* Line 316: request_id = api_request['id']
RequestIdOf(resp) == resp.id

\* Lines 318, 331, 333: what the call returns once the POST has succeeded and
\* (when waiting) a final status payload st has arrived.
ReturnAfterPost(resp) == Returned("api_request", resp)
ReturnAfterPoll(st) == Returned("status", st)

BootstrapIdle ==
    /\ pc = "idle"
    /\ call = NoCall
    /\ bootstrap_config = NoValue
    /\ number_of_attempts = 0
    /\ api_request = NoValue
    /\ request_id = ""
    /\ status = NoValue
    /\ trace = <<>>
    /\ posted = {}
    /\ result = Running

BootstrapInit ==
    /\ pc = "called"
    /\ call \in Calls
    /\ bootstrap_config = NoValue
    /\ number_of_attempts = 0
    /\ api_request = NoValue
    /\ request_id = ""
    /\ status = NoValue
    /\ trace = <<>>
    /\ posted = {}
    /\ result = Running

\* Lines 247-265 when a check fails: InvalidParameterException.
RejectArguments ==
    /\ pc = "called"
    /\ ValidateArguments(call) /= ""
    /\ result' = Raised("InvalidParameterException", ValidateArguments(call))
    /\ pc' = "done"
    /\ UNCHANGED <<call, bootstrap_config, number_of_attempts, api_request,
                   request_id, status, trace, posted>>
    /\ UNCHANGED <<vvars, cvars>>

\* Lines 247-285 when every check passes: the payload is built.
BuildPayload ==
    /\ pc = "called"
    /\ ValidateArguments(call) = ""
    /\ bootstrap_config' = BuildBootstrapConfig(call)
    /\ pc' = "submitting"
    /\ UNCHANGED <<call, number_of_attempts, api_request, request_id, status,
                   trace, posted, result>>
    /\ UNCHANGED <<vvars, cvars>>

\* Lines 287-298, 316-318, 333: the POST succeeds.
PostSucceeds ==
    /\ pc = "submitting"
    /\ Count(trace, "POST") < MaxPosts
    /\ \E resp \in PostResponses :
        /\ number_of_attempts' = 1
        /\ api_request' = resp
        /\ request_id' = RequestIdOf(resp)
        /\ trace' = Append(trace, PostOk(resp))
        /\ posted' = posted \cup {bootstrap_config}
        /\ IF call.wait_for_completion
           THEN pc' = "polling" /\ result' = result
           ELSE pc' = "done" /\ result' = ReturnAfterPost(resp)
    /\ UNCHANGED <<call, bootstrap_config, status>>
    /\ UNCHANGED <<vvars, cvars>>

\* Lines 287-305, 312-314: the POST fails with connection refused.  The try
\* block sets number_of_attempts to 1 before every POST, the handler adds 1
\* and sleeps, and the test after the try statement compares the sum with 12.
PostConnectionRefused ==
    /\ pc = "submitting"
    /\ Count(trace, "POST") < MaxPosts
    /\ \E err \in ErrorMessages :
        /\ ErrorBranch(err) = "retry"
        /\ LET attempts == 1 + 1 IN
            /\ number_of_attempts' = attempts
            /\ trace' = trace \o <<PostFailed(err), SleepEvent(RetrySleepSeconds)>>
            /\ posted' = posted \cup {bootstrap_config}
            /\ IF attempts = MaxAttempts
               THEN /\ pc' = "done"
                    /\ result' = Raised("APICallException",
                           "Unable to establish a connection to the Rubrik cluster.")
               ELSE /\ pc' = "submitting"
                    /\ result' = result
    /\ UNCHANGED <<call, bootstrap_config, api_request, request_id, status>>
    /\ UNCHANGED <<vvars, cvars>>

\* Lines 287-297, 306-307: the node is already bootstrapped.
PostAlreadyBootstrapped ==
    /\ pc = "submitting"
    /\ Count(trace, "POST") < MaxPosts
    /\ \E err \in ErrorMessages :
        /\ ErrorBranch(err) = "already"
        /\ number_of_attempts' = 1
        /\ trace' = Append(trace, PostFailed(err))
        /\ posted' = posted \cup {bootstrap_config}
        /\ pc' = "done"
        /\ result' = Returned("str",
               "No change required. The Rubrik cluster is already bootstrapped.")
    /\ UNCHANGED <<call, bootstrap_config, api_request, request_id, status>>
    /\ UNCHANGED <<vvars, cvars>>

\* Lines 287-297, 308-310: any other APICallException.
PostOtherError ==
    /\ pc = "submitting"
    /\ Count(trace, "POST") < MaxPosts
    /\ \E err \in ErrorMessages :
        /\ ErrorBranch(err) = "raise"
        /\ number_of_attempts' = 1
        /\ trace' = Append(trace, PostFailed(err))
        /\ posted' = posted \cup {bootstrap_config}
        /\ pc' = "done"
        /\ result' = Raised("RubrikException", err.text)
    /\ UNCHANGED <<call, bootstrap_config, api_request, request_id, status>>
    /\ UNCHANGED <<vvars, cvars>>

\* Lines 320-326 and Bootstrap.status: the payload says IN_PROGRESS.
PollInProgress ==
    /\ pc = "polling"
    /\ Count(trace, "GET") < MaxPolls
    /\ \E st \in StatusResponses :
        /\ StatusBranch(st) = "sleep"
        /\ status' = st
        /\ trace' = trace \o <<GetOk(request_id, st), SleepEvent(PollSleepSeconds)>>
    /\ UNCHANGED <<pc, call, bootstrap_config, number_of_attempts, api_request,
                   request_id, posted, result>>
    /\ UNCHANGED <<vvars, cvars>>

\* Lines 320-321, 327-328: the payload says FAILURE or FAILED.
PollFailed ==
    /\ pc = "polling"
    /\ Count(trace, "GET") < MaxPolls
    /\ \E st \in StatusResponses :
        /\ StatusBranch(st) = "raise"
        /\ status' = st
        /\ trace' = Append(trace, GetOk(request_id, st))
        /\ pc' = "done"
        /\ result' = Raised("RubrikException", st.message)
    /\ UNCHANGED <<call, bootstrap_config, number_of_attempts, api_request,
                   request_id, posted>>
    /\ UNCHANGED <<vvars, cvars>>

\* Lines 320-321, 329-331: any other status ends the call with the payload.
PollFinished ==
    /\ pc = "polling"
    /\ Count(trace, "GET") < MaxPolls
    /\ \E st \in StatusResponses :
        /\ StatusBranch(st) = "return"
        /\ status' = st
        /\ trace' = Append(trace, GetOk(request_id, st))
        /\ pc' = "done"
        /\ result' = ReturnAfterPoll(st)
    /\ UNCHANGED <<call, bootstrap_config, number_of_attempts, api_request,
                   request_id, posted>>
    /\ UNCHANGED <<vvars, cvars>>

\* Line 321: self.status raises (the GET failed); nothing catches it.
PollRaises ==
    /\ pc = "polling"
    /\ Count(trace, "GET") < MaxPolls
    /\ \E err \in ErrorMessages :
        /\ trace' = Append(trace, GetFailed(request_id, err))
        /\ pc' = "done"
        /\ result' = Raised("APICallException", err.text)
    /\ UNCHANGED <<call, bootstrap_config, number_of_attempts, api_request,
                   request_id, status, posted>>
    /\ UNCHANGED <<vvars, cvars>>

ValidationIdle == vcall = NoCall /\ vresult = "idle"

ConnectIdle ==
    /\ cargs = NoCall
    /\ cenv = NoCall
    /\ cstate = "idle"
    /\ self = <<>>
    /\ cexc = NoException
    /\ header = NoValue

Init == BootstrapInit /\ ValidationIdle /\ ConnectIdle

Next ==
    \/ RejectArguments
    \/ BuildPayload
    \/ PostSucceeds
    \/ PostConnectionRefused
    \/ PostAlreadyBootstrapped
    \/ PostOtherError
    \/ PollInProgress
    \/ PollFailed
    \/ PollFinished
    \/ PollRaises

Spec == Init /\ [][Next]_vars

\* ------------------------------------------------------------------------
\* _api_validation (Connect and Bootstrap)
\* ------------------------------------------------------------------------

EndpointChars == {"/", "=", "a"}

Strings(n) == UNION {[1..k -> EndpointChars] : k \in 0..n}

\* The endpoints tried: every string over EndpointChars up to the bound, and
\* one value that is not a str.
Endpoints == {PyStr(e) : e \in Strings(MaxEndpointLen)} \cup {PyList(<<>>)}

Versions == {"v1", "v2", "internal", "v3", ""}

ValidationCalls == [cls : {"Connect", "Bootstrap"}, api_version : Versions,
                    api_endpoint : Endpoints]

\* s[k] of a Python str: a negative k counts from the end, and an index
\* outside the string raises IndexError.
PyIndex(s, k) ==
    LET j == IF k < 0 THEN Len(s) + k ELSE k
    IN IF j < 0 \/ j >= Len(s) THEN "IndexError" ELSE s[j + 1]

\* Lines 184 and 405: valid_api_versions.
ValidApiVersions(cls) ==
    IF cls = "Connect" THEN {"v1", "v2", "internal"} ELSE {"v1", "internal"}

\* Lines 186-200 and 407-421: how _api_validation ends.
ApiValidation(cls, api_version, api_endpoint) ==
    IF api_version \notin ValidApiVersions(cls)
    THEN "InvalidParameterException"
    ELSE IF ~IsInstance(api_endpoint, "str")
    THEN "InvalidParameterException"
    ELSE IF PyIndex(api_endpoint.val, 0) = "IndexError"
    THEN "IndexError"
    ELSE IF PyIndex(api_endpoint.val, 0) /= "/"
    THEN "InvalidParameterException"
    ELSE IF PyIndex(api_endpoint.val, -1) = "/"
    THEN IF PyIndex(api_endpoint.val, -2) = "IndexError"
         THEN "IndexError"
         ELSE IF PyIndex(api_endpoint.val, -2) /= "="
         THEN "InvalidParameterException"
         ELSE "ok"
    ELSE "ok"

ValidationInit == vcall \in ValidationCalls /\ vresult = "pending"

\* Connect._api_validation(api_version, api_endpoint)
ConnectApiValidation ==
    /\ vresult = "pending"
    /\ vcall.cls = "Connect"
    /\ vresult' = ApiValidation("Connect", vcall.api_version, vcall.api_endpoint)
    /\ UNCHANGED <<vcall, bvars, cvars>>

\* Bootstrap._api_validation(api_version, api_endpoint)
BootstrapApiValidation ==
    /\ vresult = "pending"
    /\ vcall.cls = "Bootstrap"
    /\ vresult' = ApiValidation("Bootstrap", vcall.api_version, vcall.api_endpoint)
    /\ UNCHANGED <<vcall, bvars, cvars>>

InitApiValidation == BootstrapIdle /\ ValidationInit /\ ConnectIdle

NextApiValidation ==
    \/ ConnectApiValidation
    \/ BootstrapApiValidation

SpecApiValidation == InitApiValidation /\ [][NextApiValidation]_vars

\* ------------------------------------------------------------------------
\* Connect.__init__ and Connect._authorization_header
\* ------------------------------------------------------------------------

\* The values an argument or an environment variable may hold.
ArgNodeIp == PyStr(<<49, 48>>)
EnvNodeIp == PyStr(<<49, 49>>)
ArgUsername == PyStr(<<97>>)
EnvUsername == PyStr(<<117, 50>>)
ArgPassword == PyStr(<<112, 233, 119>>)
EnvPassword == PyStr(<<>>)
ArgToken == PyStr(<<116>>)
EnvToken == PyStr(<<84, 75>>)

ConnectArgs ==
    [ node_ip : {PyNone, ArgNodeIp},
      username : {PyNone, ArgUsername},
      password : {PyNone, ArgPassword},
      api_token : {PyNone, ArgToken} ]

\* os.environ.get gives None for a variable that is not set.
Environments ==
    [ rubrik_cdm_node_ip : {PyNone, EnvNodeIp},
      rubrik_cdm_username : {PyNone, EnvUsername},
      rubrik_cdm_password : {PyNone, EnvPassword},
      rubrik_cdm_token : {PyNone, EnvToken} ]

\* Fallback that never reads the environment.
Fallback_NoEnvironment(arg, envval) == arg

\* Lines 64-65, 77-78, 83-84, 95-96: `if x is None: x = os.environ.get(...)`.
Fallback(arg, envval) == IF arg = PyNone THEN envval ELSE arg

Constructed(attrs) == [state |-> "constructed", exc |-> NoException, attrs |-> attrs]
InitRaises(msg, attrs) ==
    [state |-> "raised", exc |-> [type |-> "InvalidParameterException", msg |-> msg],
     attrs |-> attrs]

\* Lines 64-112: the attributes __init__ sets, or the exception it raises.
ConnectInit(args, env) ==
    LET node_ip == Fallback(args.node_ip, env.rubrik_cdm_node_ip)
        api_token == Fallback(args.api_token, env.rubrik_cdm_token)
        username == Fallback(args.username, env.rubrik_cdm_username)
        password == Fallback(args.password, env.rubrik_cdm_password)
        a1 == "node_ip" :> node_ip
        a2 == a1 @@ ("api_token" :> PyNone)
        a3 == a2 @@ ("username" :> username)
        a4 == a3 @@ ("password" :> password)
    IN IF node_ip = PyNone
       THEN InitRaises("The Rubrik CDM Node IP has not been provided.", <<>>)
       ELSE IF api_token = PyNone
       THEN IF username = PyNone
            THEN InitRaises("The Rubrik CDM Username or an API Token has not been provided.", a2)
            ELSE IF password = PyNone
            THEN InitRaises("The Rubrik CDM Password or an API Token has not been provided.", a3)
            ELSE Constructed(a4)
       ELSE Constructed(a1 @@ ("api_token" :> api_token))

\* str.encode(): UTF-8, for code points below 2048.
RECURSIVE Utf8Encode(_)
Utf8Encode(s) ==
    IF s = <<>> THEN <<>>
    ELSE LET c == Head(s)
         IN (IF c < 128 THEN <<c>> ELSE <<192 + (c \div 64), 128 + (c % 64)>>)
            \o Utf8Encode(Tail(s))

\* bytes.decode(): UTF-8, for one- and two-byte sequences.
RECURSIVE Utf8Decode(_)
Utf8Decode(b) ==
    IF b = <<>> THEN <<>>
    ELSE IF Head(b) < 128 THEN <<Head(b)>> \o Utf8Decode(Tail(b))
    ELSE <<(Head(b) - 192) * 64 + (b[2] - 128)>> \o Utf8Decode(Tail(Tail(b)))

\* The base64 alphabet: A-Z, a-z, 0-9, + and /.
Base64Char(i) ==
    IF i < 26 THEN 65 + i
    ELSE IF i < 52 THEN 97 + (i - 26)
    ELSE IF i < 62 THEN 48 + (i - 52)
    ELSE IF i = 62 THEN 43 ELSE 47

\* base64.b64encode: three bytes to four characters, padded with "=".
RECURSIVE Base64Encode(_)
Base64Encode(b) ==
    IF b = <<>> THEN <<>>
    ELSE IF Len(b) = 1
    THEN <<Base64Char(b[1] \div 4), Base64Char((b[1] % 4) * 16), 61, 61>>
    ELSE IF Len(b) = 2
    THEN <<Base64Char(b[1] \div 4),
           Base64Char((b[1] % 4) * 16 + (b[2] \div 16)),
           Base64Char((b[2] % 16) * 4), 61>>
    ELSE <<Base64Char(b[1] \div 4),
           Base64Char((b[1] % 4) * 16 + (b[2] \div 16)),
           Base64Char((b[2] % 16) * 4 + (b[3] \div 64)),
           Base64Char(b[3] % 64)>>
         \o Base64Encode(SubSeq(b, 4, Len(b)))

\* "Basic " and "Bearer "
BasicPrefix == <<66, 97, 115, 105, 99, 32>>
BearerPrefix == <<66, 101, 97, 114, 101, 114, 32>>

\* Credentials joined without the colon.
Credentials_NoColon(obj) == obj["username"].val \o obj["password"].val

\* Line 134: '{}:{}'.format(self.username, self.password)
Credentials(obj) == obj["username"].val \o <<58>> \o obj["password"].val

\* Lines 141-146 and 151-156: the header mapping; the Authorization value is
\* kept as the sequence of its code points.
HeaderWith(authorization) ==
    ("Content-Type" :> "application/json")
    @@ ("Accept" :> "application/json")
    @@ ("Authorization" :> authorization)
    @@ ("User-Agent" :> "Rubrik Python SDK v1.0.13")

\* Lines 131-158: the mapping _authorization_header returns.
AuthorizationHeaderOf(obj) ==
    IF obj["api_token"] = PyNone
    THEN HeaderWith(BasicPrefix
                    \o Utf8Decode(Base64Encode(Utf8Encode(Credentials(obj)))))
    ELSE HeaderWith(BearerPrefix \o obj["api_token"].val)

ConnectInit0 ==
    /\ cargs \in ConnectArgs
    /\ cenv \in Environments
    /\ cstate = "pending"
    /\ self = <<>>
    /\ cexc = NoException
    /\ header = NoValue

\* Connect(node_ip, username, password, api_token)
Construct ==
    /\ cstate = "pending"
    /\ LET r == ConnectInit(cargs, cenv)
       IN /\ cstate' = r.state
          /\ cexc' = r.exc
          /\ self' = r.attrs
    /\ UNCHANGED <<cargs, cenv, header, bvars, vvars>>

\* self._authorization_header() on a constructed object
AuthorizationHeader ==
    /\ cstate = "constructed"
    /\ header' = AuthorizationHeaderOf(self)
    /\ UNCHANGED <<cargs, cenv, cstate, self, cexc, bvars, vvars>>

InitConnect == BootstrapIdle /\ ValidationIdle /\ ConnectInit0

NextConnect ==
    \/ Construct
    \/ AuthorizationHeader

SpecConnect == InitConnect /\ [][NextConnect]_vars

\* ------------------------------------------------------------------------
\* Properties of Bootstrap.setup_cluster (checked under Spec)
\* ------------------------------------------------------------------------

Posts == {i \in DOMAIN trace : trace[i].op = "POST"}
Gets == {i \in DOMAIN trace : trace[i].op = "GET"}
Sleeps == {i \in DOMAIN trace : trace[i].op = "SLEEP"}
OkPosts == {i \in Posts : trace[i].ok}

\* The call's outcome is r (the values are compared only when both are of
\* the same kind).
ResultIs(r) == result.how = r.how /\ result.kind = r.kind /\ result.val = r.val

AlreadyLiteral == "No change required. The Rubrik cluster is already bootstrapped."
UnableLiteral == "Unable to establish a connection to the Rubrik cluster."

\* Every POST so far met connection refused.
AllRefused == \A i \in Posts : ~trace[i].ok /\ trace[i].err.refused

\* C1: when every POST fails with connection refused, the submission is
\* attempted exactly 12 times and the call then ends by raising
\* APICallException("Unable to establish a connection to the Rubrik
\* cluster."); there is never a 13th POST.
C1_TwelveRefusalsThenRaise ==
    (AllRefused /\ Posts /= {}) =>
        /\ Cardinality(Posts) <= MaxAttempts
        /\ Cardinality(Posts) = MaxAttempts =>
              /\ pc = "done"
              /\ ResultIs(Raised("APICallException", UnableLiteral))
        /\ Cardinality(Posts) < MaxAttempts => pc = "submitting"

C5_OtherFailureSurfaces ==
    \A i \in Posts :
        (~trace[i].ok /\ ~trace[i].err.refused /\ ~trace[i].err.already) =>
            /\ i = Len(trace)
            /\ pc = "done"
            /\ result.how = "raise"
            /\ result.val = trace[i].err.text
            /\ (i = 1 \/ trace[i - 1].op = "SLEEP")

C5_Witness ==
    /\ Cardinality(Posts) >= 2
    /\ trace[Len(trace)].op = "POST"
    /\ trace[Len(trace)].err.text = "Read timed out"
    /\ trace[Len(trace) - 1].op = "SLEEP"
    /\ ResultIs(Raised("RubrikException", "Read timed out"))

NotAList(arg) == arg /= PyNone /\ arg.type /= "list"

\* The calls C6 says are rejected.
InvalidConfiguration(c) ==
    \/ c.node_config = PyNone
    \/ c.node_config.type /= "dict"
    \/ DOMAIN c.node_config.val = {}
    \/ NotAList(c.dns_search_domains)
    \/ NotAList(c.dns_nameservers)
    \/ NotAList(c.ntp_servers)

\* C6: a call whose node_config is None, not a dictionary or an empty
\* dictionary, or one of whose three list arguments is supplied but is not a
\* list, fails with InvalidParameterException before any HTTP request or
\* sleep; a POST carries a non-empty nodeConfigs.
C6_InvalidConfigurationRejected ==
    /\ (pc /= "called" /\ InvalidConfiguration(call)) =>
          /\ pc = "done"
          /\ result.how = "raise"
          /\ result.kind = "InvalidParameterException"
          /\ trace = <<>>
    /\ \A p \in posted : DOMAIN p.nodeConfigs /= {}

\* C10: the payload of every POST has nodeConfigs with exactly the supplied
\* node names, each with the node's IP as address and the supplied subnet
\* mask and gateway; the three list fields hold the documented defaults when
\* the argument is omitted and the supplied list otherwise; all POSTs of one
\* call carry the same payload.
C10_PayloadMatchesArguments ==
    /\ Cardinality(posted) <= 1
    /\ (Posts /= {}) => posted /= {}
    /\ \A p \in posted :
        /\ DOMAIN p.nodeConfigs = DOMAIN call.node_config.val
        /\ \A n \in DOMAIN p.nodeConfigs :
              /\ p.nodeConfigs[n].managementIpConfig.address = call.node_config.val[n]
              /\ p.nodeConfigs[n].managementIpConfig.netmask = call.management_subnet_mask
              /\ p.nodeConfigs[n].managementIpConfig.gateway = call.management_gateway
        /\ p.dnsNameservers = IF call.dns_nameservers.type = "NoneType"
                              THEN <<"8.8.8.8">> ELSE call.dns_nameservers.val
        /\ p.ntpServers = IF call.ntp_servers.type = "NoneType"
                          THEN <<"pool.ntp.org">> ELSE call.ntp_servers.val
        /\ p.dnsSearchDomains = IF call.dns_search_domains.type = "NoneType"
                                THEN <<>> ELSE call.dns_search_domains.val

C10_Witness ==
    /\ Cardinality(Posts) >= 3
    /\ DOMAIN call.node_config.val = {"node1", "node2"}
    /\ call.dns_nameservers = PyNone
    /\ call.ntp_servers /= PyNone
    /\ \E p \in posted : p.nodeConfigs["node1"].managementIpConfig.address = "1.2.3.4"

\* ------------------------------------------------------------------------
\* Properties of _api_validation (checked under SpecApiValidation)
\* ------------------------------------------------------------------------

\* The endpoint strings C7 says are rejected: not starting with "/", or
\* ending with "/" with no "=" right before it.
MalformedEndpoint(e) ==
    \/ e = <<>>
    \/ e[1] /= "/"
    \/ /\ e[Len(e)] = "/"
       /\ (Len(e) < 2 \/ e[Len(e) - 1] /= "=")

\* C7: for every version tag and every endpoint string, the empty string and
\* "/" included, _api_validation raises InvalidParameterException, and no
\* other error, exactly when the version is not supported or the endpoint is
\* malformed, and returns normally otherwise.
C7_RejectsExactlyMalformed ==
    (vresult /= "pending" /\ vcall.api_endpoint.type = "str") =>
        vresult = IF \/ vcall.api_version \notin ValidApiVersions(vcall.cls)
                     \/ MalformedEndpoint(vcall.api_endpoint.val)
                  THEN "InvalidParameterException"
                  ELSE "ok"

\* ------------------------------------------------------------------------
\* Properties of Connect (checked under SpecConnect)
\* ------------------------------------------------------------------------

Base64Index(c) ==
    IF c >= 65 /\ c <= 90 THEN c - 65
    ELSE IF c >= 97 /\ c <= 122 THEN c - 71
    ELSE IF c >= 48 /\ c <= 57 THEN c + 4
    ELSE IF c = 43 THEN 62
    ELSE IF c = 47 THEN 63
    ELSE -1

\* The bytes a padded base64 text stands for.
RECURSIVE Base64Decode(_)
Base64Decode(t) ==
    IF Len(t) < 4 THEN <<>>
    ELSE LET i1 == Base64Index(t[1])
             i2 == Base64Index(t[2])
             i3 == Base64Index(t[3])
             i4 == Base64Index(t[4])
             b1 == i1 * 4 + (i2 \div 16)
             b2 == (i2 % 16) * 16 + (i3 \div 4)
             b3 == (i3 % 4) * 64 + i4
         IN IF t[3] = 61 THEN <<b1>>
            ELSE IF t[4] = 61 THEN <<b1, b2>>
            ELSE <<b1, b2, b3>> \o Base64Decode(SubSeq(t, 5, Len(t)))

Set(obj, attr) == attr \in DOMAIN obj /\ obj[attr] /= PyNone

\* The token the constructor was given, by argument or else by environment.
GivenToken == IF cargs.api_token /= PyNone THEN cargs.api_token ELSE cenv.rubrik_cdm_token

HeaderAsSpecified ==
    (header /= NoValue) =>
        /\ DOMAIN header = {"Content-Type", "Accept", "Authorization", "User-Agent"}
        /\ header["Content-Type"] = "application/json"
        /\ header["Accept"] = "application/json"
        /\ header["User-Agent"] = "Rubrik Python SDK v1.0.13"
        /\ LET auth == header["Authorization"]
           IN IF Set(self, "api_token")
              THEN /\ auth = BearerPrefix \o self["api_token"].val
                   /\ auth = BearerPrefix \o GivenToken.val
              ELSE /\ GivenToken = PyNone
                   /\ Len(auth) >= Len(BasicPrefix)
                   /\ SubSeq(auth, 1, Len(BasicPrefix)) = BasicPrefix
                   /\ LET text == SubSeq(auth, Len(BasicPrefix) + 1, Len(auth))
                      IN /\ Len(text) % 4 = 0
                         /\ \A i \in DOMAIN text :
                               Base64Index(text[i]) >= 0 \/ (text[i] = 61 /\ i > Len(text) - 2)
                         /\ Base64Decode(text) =
                               Utf8Encode(self["username"].val \o <<58>> \o self["password"].val)

Unsatisfiable ==
    LET absent(a, e) == a = PyNone /\ e = PyNone
    IN \/ absent(cargs.node_ip, cenv.rubrik_cdm_node_ip)
       \/ /\ absent(cargs.api_token, cenv.rubrik_cdm_token)
          /\ \/ absent(cargs.username, cenv.rubrik_cdm_username)
             \/ absent(cargs.password, cenv.rubrik_cdm_password)

\* C9: a constructed Connect object holds a node address and exactly one of
\* {username and password, API token}, for every combination of arguments
\* and environment variables; the combinations that cannot give that fail
\* with InvalidParameterException, and no others do.
C9_ExactlyOneCredential ==
    /\ (cstate = "constructed") =>
          /\ Set(self, "node_ip")
          /\ (Set(self, "username") /\ Set(self, "password")) /= Set(self, "api_token")
          /\ ~Unsatisfiable
    /\ (cstate = "raised") => (Unsatisfiable /\ cexc.type = "InvalidParameterException")
    /\ (cstate = "pending") => self = <<>>

C9_Witness ==
    /\ cstate = "constructed"
    /\ cargs.node_ip = PyNone
    /\ cargs.username = PyNone
    /\ cargs.api_token = PyNone
    /\ cenv.rubrik_cdm_token = PyNone
    /\ self["username"] = EnvUsername
    /\ self["password"] = ArgPassword
    /\ self["node_ip"] = EnvNodeIp

=============================================================================
